---- MODULE Spec2Model ----
(***************************************************************************)
(* Model of the bumpercar bump-allocation arena: the chunk allocator       *)
(* (RawArena, src/src/raw_arena.rs), frames (src/src/frame.rs) and the     *)
(* fallible-allocation protocol.  Addresses are machine words of WordBits  *)
(* bits; pointer arithmetic wraps modulo 2^WordBits as wrapping_sub does.  *)
(***************************************************************************)
EXTENDS Integers, Sequences, FiniteSets, TLC

\* ------------------------------------------------------------------ bounds
WordBits == 16
MaxOps == 3
MaxDepth == 2

\* --------------------------------------------------------------- constants
HEADER_SIZE == 48
CHUNK_ALIGNMENT == 16
DEFAULT_CAPACITY == 1024
Null == 0
\* A Vec of a one-byte element type.
ELEMENT_SIZE == 1
ELEMENT_ALIGN == 1

USIZE == 2 ^ WordBits
USIZE_MAX == USIZE - 1
ISIZE_MAX == 2 ^ (WordBits - 1) - 1

\* Addresses at which the system allocator may place a block.
Bases == {4112, 8192, 16384}

\* Initial capacities handed to RawArena::with_capacity (0 is Arena::new).
InitCaps == {0, 6}

\* Layouts (size, align) requested by callers.
Layouts ==
    { <<6, 1>>, <<6, 32>>, <<48, 1>> }

\* New sizes passed to realloc.
NewSizes == {0, 8}

VARIABLES
    aborted,        \* a debug_assert! failed in a debug build, the run is over
    current_chunk,  \* RawArena::current_chunk (Null is None)
    headers,        \* the ChunkHeader stored at each block address
    allocs,         \* allocations handed out and not yet reclaimed
    stack,          \* active with_frame / alloc_try_with_layout closures
    last,           \* the operation that ran last, and its outcome
    nops,           \* allocation requests made so far
    dropped,        \* the arena was destroyed (impl Drop for RawArena ran)
    vec,            \* the fields of the one bumpercar::vec::Vec in use
    mem,            \* the bytes written so far, by address
    shared          \* a sync::SharedArena, its pool and the threads using it

vars == <<aborted, current_chunk, headers, allocs, stack, last, nops,
          dropped, vec, mem, shared>>

\* ----------------------------------------------------------------- helpers
WrapSub(a, b) == (a - b + USIZE) % USIZE
WrapAdd(a, b) == (a + b) % USIZE

Min(a, b) == IF a <= b THEN a ELSE b

\* Layout::pad_to_align: the size rounded up to a multiple of the alignment.
PadToAlign(size, align) == ((size + align - 1) \div align) * align

\* Layout::from_size_align succeeds.
LayoutOk(size, align) == PadToAlign(size, align) <= ISIZE_MAX

NoChunk == [previous |-> Null, next |-> Null, end |-> Null, finger |-> Null, layout |-> 0]

NoState == [chunk |-> Null, finger |-> Null]

\* Blocks currently owned from the system allocator.
Allocated(h) == {c \in DOMAIN h : h[c].layout # 0}

Start(c) == c + HEADER_SIZE

Capacity(h, c) == h[c].end - Start(c)

\* ------------------------------------------------- ChunkHeader fast paths
\* Mutant of FastAllocFinger: aligns the finger before making room.
FastAllocFingerAlignFirst(finger, size, align) ==
    WrapSub(WrapSub(finger, finger % align), size)

\* Mutant of FastAllocFinger: the finger is not aligned down.
FastAllocFingerUnaligned(finger, size, align) == WrapSub(finger, size)

\* finger.wrapping_sub(size), then aligned down to the layout's alignment.
FastAllocFinger(finger, size, align) ==
    LET f1 == WrapSub(finger, size)
    IN  WrapSub(f1, f1 % align)

ChunkFastAlloc(h, c, size, align, debug) ==
    LET start == Start(c)
        old == h[c].finger
        finger == FastAllocFinger(old, size, align)
    IN  IF debug /\ ~(old >= start /\ c < old)
        THEN [status |-> "assert", ptr |-> Null, headers |-> h]
        ELSE IF finger >= start
        THEN IF debug /\ ~(finger <= h[c].end)
             THEN [status |-> "assert", ptr |-> Null, headers |-> h]
             ELSE [status |-> "ok", ptr |-> finger,
                   headers |-> [h EXCEPT ![c].finger = finger]]
        ELSE [status |-> "oom", ptr |-> Null, headers |-> h]


\* ChunkHeader::fast_realloc: resize the allocation at the finger in place.
ChunkFastRealloc(h, c, pointer, size, align, new_size, debug) ==
    LET finger == h[c].finger
        start == Start(c)
        fail(st) == [status |-> st, ptr |-> Null, kind |-> "none", headers |-> h]
    IN  IF finger # pointer \/ size = 0 THEN fail("oom")
        ELSE IF debug /\ (finger % align) # 0 THEN fail("assert")
        ELSE IF ~LayoutOk(new_size, align) THEN fail("oom")
        ELSE
          LET aligned == PadToAlign(size, align)
              new == PadToAlign(new_size, align)
              shrink == aligned >= new
              moved == IF shrink THEN WrapAdd(finger, aligned - new)
                                 ELSE WrapSub(finger, new - aligned)
          IN  IF shrink /\ debug /\ ~(moved >= start) THEN fail("assert")
              ELSE IF ~shrink /\ moved < start THEN fail("oom")
              ELSE IF moved = Null THEN fail("oom")
              ELSE IF debug /\ ~(moved <= h[c].end) THEN fail("assert")
              ELSE [status |-> "ok", ptr |-> moved,
                    kind |-> IF shrink THEN "Shrink" ELSE "Grow",
                    headers |-> [h EXCEPT ![c].finger = moved]]

\* ------------------------------------------- get_next_or_allocate_chunk
\* Mutant of ChunkPlan: the new chunk gets the capacity of the current one.
ChunkPlanSameCapacity(cur, h, default_capacity, request) ==
    LET next == IF cur # Null THEN h[cur].next ELSE Null
    IN  IF next # Null
        THEN IF request # 0 /\ request < Capacity(h, next)
             THEN [kind |-> "realloc", next |-> next,
                   size |-> HEADER_SIZE + request, old_next |-> h[next].next]
             ELSE [kind |-> "adopt", next |-> next, size |-> 0, old_next |-> Null]
        ELSE
          LET doubled == IF cur # Null
                         THEN Min(Capacity(h, cur), USIZE_MAX)
                         ELSE IF default_capacity # 0 THEN default_capacity
                              ELSE DEFAULT_CAPACITY
              size0 == doubled + HEADER_SIZE
              content == size0 - HEADER_SIZE
              size == IF request # 0 /\ content < request
                      THEN size0 + (request - content) ELSE size0
          IN  [kind |-> "alloc", next |-> Null, size |-> size, old_next |-> Null]

\* The part of get_next_or_allocate_chunk before the system allocator is
\* called: which path is taken and the size asked for.
ChunkPlan(cur, h, default_capacity, request) ==
    LET next == IF cur # Null THEN h[cur].next ELSE Null
    IN  IF next # Null
        THEN IF request # 0 /\ request < Capacity(h, next)
             THEN [kind |-> "realloc", next |-> next,
                   size |-> HEADER_SIZE + request, old_next |-> h[next].next]
             ELSE [kind |-> "adopt", next |-> next, size |-> 0, old_next |-> Null]
        ELSE
          LET doubled == IF cur # Null
                         THEN Min(Capacity(h, cur) * 2, USIZE_MAX)
                         ELSE IF default_capacity # 0 THEN default_capacity
                              ELSE DEFAULT_CAPACITY
              size0 == doubled + HEADER_SIZE
              content == size0 - HEADER_SIZE
              size == IF request # 0 /\ content < request
                      THEN size0 + (request - content) ELSE size0
          IN  [kind |-> "alloc", next |-> Null, size |-> size, old_next |-> Null]

\* rounded_size = size + size % CHUNK_ALIGNMENT
RoundedSize(size) == size + (size % CHUNK_ALIGNMENT)

\* A checked_add or Layout::from_size_align in the size computation fails.
PlanOverflows(plan) ==
    /\ plan.kind \in {"alloc", "realloc"}
    /\ \/ plan.size > USIZE_MAX
       \/ RoundedSize(plan.size) > USIZE_MAX
       \/ ~LayoutOk(RoundedSize(plan.size), CHUNK_ALIGNMENT)

Disjoint(a, asize, b, bsize) == a + asize <= b \/ b + bsize <= a

\* The places where a block of the given size overlaps no other block
\* (for realloc, the block being resized may be reused).
FreeBases(h, size, resized) ==
    { p \in Bases :
        /\ p + size <= USIZE
        /\ \A c \in Allocated(h) \ (IF p = resized THEN {p} ELSE {}) :
               Disjoint(p, size, c, h[c].layout) }

\* What alloc::alloc / alloc::realloc may return for the plan: a null
\* pointer, the resized block itself, or the lowest free place (a first-fit
\* system allocator).
SysAnswers(h, plan) ==
    IF plan.kind \in {"alloc", "realloc"} /\ ~PlanOverflows(plan)
    THEN LET free == FreeBases(h, RoundedSize(plan.size), plan.next)
         IN  {Null} \cup
             { p \in free : p = plan.next \/
                            \A q \in free \ {plan.next} : p <= q }
    ELSE {Null}

\* Mutant of LinkAfter: the previous chunk's next link is not set.
LinkAfterSkipped(h, previous, chunk) == h

\* previous.next.set(Some(chunk)), when there is a previous chunk.
LinkAfter(h, previous, chunk) ==
    IF previous # Null THEN [h EXCEPT ![previous].next = chunk] ELSE h

GetNextOrAllocateChunk(cur, h, default_capacity, request, p, debug) ==
    LET res(st, path, c, cc, hh, sf, ov) ==
            [status |-> st, path |-> path, chunk |-> c, current |-> cc,
             headers |-> hh, sysfail |-> sf, overflow |-> ov]
        \* The chunk whose header was written (h1) is linked into the list.
        Link(plan, h1) ==
            LET h2 == LinkAfter(h1, cur, p)
            IN  IF cur # Null /\ debug /\ h1[cur].next # Null
                THEN res("assert", plan.kind, Null, cur, h1, FALSE, FALSE)
                ELSE res("ok", plan.kind, p, p,
                         IF plan.old_next # Null
                         THEN [h2 EXCEPT ![plan.old_next].previous = p]
                         ELSE h2,
                         FALSE, FALSE)
        \* The header is written at the start of the block at p.
        Write(plan, rounded) ==
            Link(plan,
                 [(IF plan.kind = "realloc"
                   THEN [h EXCEPT ![plan.next] = NoChunk] ELSE h)
                  EXCEPT ![p] = [previous |-> cur, next |-> plan.old_next,
                                 end |-> p + rounded, finger |-> p + rounded,
                                 layout |-> rounded]])
        Go(plan, overflow) ==
            IF plan.next # Null /\ debug /\ h[plan.next].previous # cur
            THEN res("assert", plan.kind, Null, cur, h, FALSE, overflow)
            ELSE IF plan.kind = "adopt"
            THEN res("ok", "adopt", plan.next, plan.next,
                     [h EXCEPT ![plan.next].finger = h[plan.next].end],
                     FALSE, FALSE)
            ELSE IF overflow
            THEN res("oom", plan.kind, Null, cur, h, FALSE, TRUE)
            ELSE IF p = Null
            THEN res("oom", plan.kind, Null, cur, h, TRUE, FALSE)
            ELSE Write(plan, RoundedSize(plan.size))
        Planned(plan) == Go(plan, PlanOverflows(plan))
    IN  Planned(ChunkPlan(cur, h, default_capacity, request))

\* ------------------------------------------------------------- RawArena
\* RawArena::alloc_with_layout: the fast path in the current chunk, then
\* slow_alloc_with_layout, whose Err is unwrapped into a panic.
RawAllocWithLayout(cur, h, size, align, p, debug) ==
    LET res(st, ptr, path, cc, hh, sf, ov) ==
            [status |-> st, ptr |-> ptr, freed |-> Null, path |-> path,
             current |-> cc, headers |-> hh, sysfail |-> sf, overflow |-> ov]
        \* The allocation made in the chunk the slow path obtained.
        InChunk(g, slow) ==
            IF slow.status = "ok"
            THEN res("ok", slow.ptr, g.path, g.current, slow.headers,
                     FALSE, FALSE)
            ELSE res(IF slow.status = "assert" THEN "assert" ELSE "panic",
                     Null, g.path, g.current, g.headers, FALSE, FALSE)
        Slow(g) ==
            IF g.status # "ok"
            THEN res(IF g.status = "assert" THEN "assert" ELSE "panic", Null,
                     g.path, g.current, g.headers, g.sysfail, g.overflow)
            ELSE InChunk(g, ChunkFastAlloc(g.headers, g.chunk, size, align,
                                           debug))
        Fast(fast) ==
            IF fast.status = "ok"
            THEN res("ok", fast.ptr, "fast", cur, fast.headers, FALSE, FALSE)
            ELSE IF fast.status = "assert"
            THEN res("assert", Null, "fast", cur, h, FALSE, FALSE)
            ELSE Slow(GetNextOrAllocateChunk(cur, h, 0, size, p, debug))
    IN  Fast(IF cur # Null THEN ChunkFastAlloc(h, cur, size, align, debug)
             ELSE [status |-> "oom", ptr |-> Null, headers |-> h])

\* The answers the system allocator may give during alloc_with_layout.
AllocAnswers(cur, h, size, align) ==
    IF cur # Null /\ ChunkFastAlloc(h, cur, size, align, FALSE).status = "ok"
    THEN {Null}
    ELSE SysAnswers(h, ChunkPlan(cur, h, 0, size))

\* RawArena::realloc: (new pointer, freed pointer or Null for None).
RawRealloc(cur, h, pointer, size, align, new_size, p, debug) ==
    LET res(st, ptr, freed, path, hh, ov) ==
            [status |-> st, ptr |-> ptr, freed |-> freed, path |-> path,
             current |-> cur, headers |-> hh, sysfail |-> FALSE,
             overflow |-> ov]
        Fast(fast) ==
            IF fast.status = "ok"
            THEN res("ok", fast.ptr,
                     IF fast.kind = "Shrink" THEN pointer ELSE Null,
                     fast.kind, fast.headers, FALSE)
            ELSE IF fast.status = "assert"
            THEN res("assert", Null, Null, "fast", h, FALSE)
            ELSE IF ~LayoutOk(new_size, align)
            THEN res("panic", Null, Null, "fast", h, TRUE)
            ELSE [RawAllocWithLayout(cur, h, new_size, align, p, debug)
                     EXCEPT !.freed = pointer]
    IN  Fast(IF cur # Null
             THEN ChunkFastRealloc(h, cur, pointer, size, align, new_size, debug)
             ELSE [status |-> "oom", ptr |-> Null, kind |-> "none",
                   headers |-> h])

ReallocAnswers(cur, h, pointer, size, align, new_size) ==
    IF \/ cur # Null
          /\ ChunkFastRealloc(h, cur, pointer, size, align, new_size, FALSE).status = "ok"
       \/ ~LayoutOk(new_size, align)
    THEN {Null}
    ELSE AllocAnswers(cur, h, new_size, align)

\* RawArena::current_state
CurrentState(cur, h) ==
    IF cur = Null THEN NoState ELSE [chunk |-> cur, finger |-> h[cur].finger]

\* The Chunks iterator: the current chunk and the chunks reached from it
\* through previous links.
RECURSIVE Chunks(_, _)
Chunks(cur, h) ==
    IF cur = Null THEN {} ELSE {cur} \cup Chunks(h[cur].previous, h)

\* Mutant of ResetHeaders: also gives back the chunks kept after the
\* current one.
ResetHeadersDropping(cur, h) ==
    [c \in DOMAIN h |->
        IF c \in Chunks(cur, h) THEN [h[c] EXCEPT !.finger = h[c].end, !.next = Null]
        ELSE NoChunk]

\* RawArena::reset
ResetHeaders(cur, h) ==
    [c \in DOMAIN h |->
        IF c \in Chunks(cur, h) THEN [h[c] EXCEPT !.finger = h[c].end] ELSE h[c]]

\* Mutant of RestoreState: puts the finger back but not the current chunk.
RestoreStateFingerOnly(cur, h, state) ==
    IF state # NoState
    THEN [current |-> cur,
          headers |-> [h EXCEPT ![state.chunk].finger = state.finger]]
    ELSE [current |-> cur, headers |-> ResetHeaders(cur, h)]

\* Mutant of RestoreState: the chunks other than the restored one are
\* emptied at once.
RestoreStateEager(cur, h, state) ==
    IF state # NoState
    THEN [current |-> state.chunk,
          headers |-> [c \in DOMAIN h |->
                          IF c = state.chunk
                          THEN [h[c] EXCEPT !.finger = state.finger]
                          ELSE [h[c] EXCEPT !.finger = h[c].end]]]
    ELSE [current |-> cur, headers |-> ResetHeaders(cur, h)]

\* RawArena::restore_state
RestoreState(cur, h, state) ==
    IF state # NoState
    THEN [current |-> state.chunk,
          headers |-> [h EXCEPT ![state.chunk].finger = state.finger]]
    ELSE [current |-> cur, headers |-> ResetHeaders(cur, h)]

\* Mutant of WithCapacity: the chunk is made for half the capacity.
WithCapacityHalved(capacity, p) ==
    LET empty == [c \in Bases |-> NoChunk]
        Made(g) == [current |-> g.current, headers |-> g.headers]
    IN  IF capacity = 0
        THEN [current |-> Null, headers |-> empty]
        ELSE Made(GetNextOrAllocateChunk(Null, empty, capacity \div 2, 0, p,
                                         FALSE))

\* RawArena::with_capacity
WithCapacity(capacity, p) ==
    LET empty == [c \in Bases |-> NoChunk]
        Made(g) == [current |-> g.current, headers |-> g.headers]
    IN  IF capacity = 0
        THEN [current |-> Null, headers |-> empty]
        ELSE Made(GetNextOrAllocateChunk(Null, empty, capacity, 0, p, FALSE))

\* --------------------------------------------------------------- actions
\* A Vec that was not created yet.  pushed, popped and drops follow the
\* values moved into the vector: the value in each slot, the values moved
\* out by pop and the values whose destructor ran; owned is the size in
\* bytes of the storage the last realloc returned.
NoVec ==
    [state |-> "none", pointer |-> Null, capacity |-> 0, length |-> 0,
     owned |-> 0, npush |-> 0, pushed |-> <<>>, popped |-> {},
     drops |-> <<>>]

\* No byte was written yet.
NoMem == [a \in {} |-> 0]

\* The threads that use the SharedArena.
Threads == {1, 2}

\* The RawArena::default() that mem::take leaves in a ThreadAllocator: it
\* has no chunk.  The arenas that allocator() creates are numbered from 1.
NoArena == 0

\* SharedArena::new(): the pool is empty, the mutex is free and no thread
\* holds a ThreadAllocator.  created counts the arenas allocator() made,
\* freed holds the arenas impl Drop for RawArena ran on, used the arenas a
\* thread allocated from, leaked the arenas of ThreadAllocators dropped
\* while the mutex was poisoned, calls the calls of allocator().
NoShared ==
    [pool |-> <<>>, mutex |-> 0, poisoned |-> FALSE,
     threads |-> [t \in Threads |-> [pc |-> "idle", arena |-> NoArena]],
     created |-> 0, freed |-> {}, used |-> {}, leaked |-> {}, calls |-> 0]

NoLast ==
    [op |-> "new", status |-> "ok", ptr |-> Null, size |-> 0, align |-> 1,
     freed |-> Null, path |-> "none", sysfail |-> FALSE, overflow |-> FALSE,
     pre |-> NoState, saved |-> NoState, flag |-> FALSE, heap |-> <<>>,
     nallocs |-> 0, bytes |-> <<>>, prev |-> <<>>, vec |-> NoVec,
     cap |-> 0, len |-> 0]

\* The arena is alive, and the operation is one of the arena's own: it
\* leaves the vector and the bytes stored in the arena alone.
ArenaOnly ==
    /\ ~dropped
    /\ UNCHANGED <<dropped, vec, mem, shared>>

Init ==
    /\ aborted = FALSE
    /\ dropped = FALSE
    /\ vec = NoVec
    /\ mem = NoMem
    /\ shared = NoShared
    /\ \E capacity \in InitCaps, p \in Bases :
         \E arena \in {WithCapacity(capacity, p)} :
            /\ current_chunk = arena.current
            /\ headers = arena.headers
    /\ allocs = <<>>
    /\ stack = <<>>
    /\ last = NoLast
    /\ nops = 0

\* The ghost record of one operation's outcome.
Outcome(op, r, size, align) ==
    [NoLast EXCEPT !.op = op, !.status = r.status, !.ptr = r.ptr,
                   !.size = size, !.align = align, !.freed = r.freed,
                   !.path = r.path, !.sysfail = r.sysfail,
                   !.overflow = r.overflow,
                   !.pre = CurrentState(current_chunk, headers),
                   !.cap = last.cap]

\* Bump::alloc_with_layout with one of the given layouts.
AllocIn(layouts) ==
    /\ ~aborted
    /\ ArenaOnly
    /\ nops < MaxOps
    /\ \E l \in layouts, debug \in BOOLEAN :
         \E p \in AllocAnswers(current_chunk, headers, l[1], l[2]) :
            \E r \in {RawAllocWithLayout(current_chunk, headers, l[1], l[2],
                                          p, debug)} :
                /\ current_chunk' = r.current
                /\ headers' = r.headers
                /\ aborted' = (r.status = "assert")
                /\ allocs' = IF r.status = "ok"
                             THEN Append(allocs, [ptr |-> r.ptr, size |-> l[1],
                                                  align |-> l[2], live |-> TRUE])
                             ELSE allocs
                /\ last' = Outcome("alloc", r, l[1], l[2])
    /\ nops' = nops + 1
    /\ UNCHANGED stack

\* Bump::alloc_with_layout on the arena's allocator or on the innermost frame.
AllocWithLayout == AllocIn(Layouts)

\* Bump::realloc of a live allocation, with the layout it currently has.
Realloc ==
    /\ ~aborted
    /\ ArenaOnly
    /\ nops < MaxOps
    /\ \E i \in 1..Len(allocs) :
         /\ allocs[i].live
         /\ \E n \in NewSizes, debug \in BOOLEAN :
              LET a == allocs[i]
              IN  \E p \in ReallocAnswers(current_chunk, headers, a.ptr,
                                          a.size, a.align, n) :
                    \E r \in {RawRealloc(current_chunk, headers, a.ptr,
                                          a.size, a.align, n, p, debug)} :
                        /\ current_chunk' = r.current
                        /\ headers' = r.headers
                        /\ aborted' = (r.status = "assert")
                        /\ allocs' =
                             IF r.status # "ok" THEN allocs
                             ELSE Append([allocs EXCEPT ![i].live = FALSE],
                                         [ptr |-> r.ptr, size |-> n,
                                          align |-> a.align, live |-> TRUE])
                        /\ last' = [Outcome("realloc", r, n, a.align)
                                       EXCEPT !.saved = [chunk |-> a.ptr,
                                                         finger |-> a.size]]
    /\ nops' = nops + 1
    /\ UNCHANGED stack

\* Arena::reset: needs exclusive access, so no allocator or frame is alive.
Reset ==
    /\ ~aborted
    /\ ArenaOnly
    /\ stack = <<>>
    /\ headers' = ResetHeaders(current_chunk, headers)
    /\ allocs' = <<>>
    /\ last' = [NoLast EXCEPT !.op = "reset",
                              !.pre = CurrentState(current_chunk, headers),
                              !.heap = headers,
                              !.flag = (last.op = "reset")]
    /\ UNCHANGED <<aborted, current_chunk, stack, nops>>

\* The chunks impl Drop for RawArena hands to alloc::dealloc.
DropHeaders(cur, h) ==
    [c \in DOMAIN h |-> IF c \in Chunks(cur, h) THEN NoChunk ELSE h[c]]

\* The arena goes out of scope: no allocator, frame or closure is alive.
Drop ==
    /\ ~aborted
    /\ ~dropped
    /\ stack = <<>>
    /\ dropped' = TRUE
    /\ headers' = DropHeaders(current_chunk, headers)
    /\ allocs' = <<>>
    /\ last' = [NoLast EXCEPT !.op = "drop",
                              !.pre = CurrentState(current_chunk, headers),
                              !.heap = headers]
    /\ UNCHANGED <<aborted, current_chunk, stack, nops, vec, mem, shared>>

\* The closure entry pushed by with_frame or alloc_try_with_layout.
Entry(kind, state, success, nallocs, ops) ==
    [kind |-> kind, state |-> state, success |-> success,
     nallocs |-> nallocs, ops |-> ops, nested |-> FALSE]

Top == stack[Len(stack)]

Pop == SubSeq(stack, 1, Len(stack) - 1)

\* Frame::in_arena up to the call of the closure: Frame::with_arena takes
\* the snapshot.  with_frame borrows the allocator mutably, so it cannot be
\* called from the closure of alloc_try_with_layout.
FrameEnter ==
    /\ ~aborted
    /\ ArenaOnly
    /\ Len(stack) < MaxDepth
    /\ stack # <<>> => Top.kind = "frame"
    /\ stack' = Append(stack, Entry("frame", CurrentState(current_chunk, headers),
                                    NoState, Len(allocs), 0))
    /\ last' = [NoLast EXCEPT !.op = "frame_enter",
                              !.pre = CurrentState(current_chunk, headers)]
    /\ UNCHANGED <<aborted, current_chunk, headers, allocs, nops>>

\* Frame::in_arena after the closure returned normally: Frame::restore.
FrameExit ==
    /\ ~aborted
    /\ ArenaOnly
    /\ stack # <<>>
    /\ Top.kind = "frame"
    /\ \E r \in {RestoreState(current_chunk, headers, Top.state)},
          used \in {Len(allocs) > Top.nallocs} :
           /\ current_chunk' = r.current
           /\ headers' = r.headers
           /\ allocs' = SubSeq(allocs, 1, Top.nallocs)
           /\ stack' = IF Len(stack) > 1
                       THEN [Pop EXCEPT ![Len(stack) - 1].nested = @ \/ used]
                       ELSE Pop
           /\ last' = [NoLast EXCEPT !.op = "frame_exit",
                                     !.pre = CurrentState(current_chunk, headers),
                                     !.saved = Top.state,
                                     !.nallocs = Top.nallocs,
                                     !.flag = Top.nested /\ used]
    /\ UNCHANGED <<aborted, nops>>

\* Mutant of Unwind: the snapshot is restored while unwinding.
UnwindRestoring ==
    /\ ~aborted
    /\ ArenaOnly
    /\ stack # <<>>
    /\ \E r \in {RestoreState(current_chunk, headers, Top.state)} :
           /\ current_chunk' = r.current
           /\ headers' = r.headers
    /\ stack' = Pop
    /\ last' = [NoLast EXCEPT !.op = "unwind",
                              !.path = Top.kind,
                              !.pre = CurrentState(current_chunk, headers),
                              !.saved = Top.state,
                              !.heap = headers,
                              !.nallocs = Len(allocs),
                              !.flag = Len(allocs) > Top.nallocs]
    /\ UNCHANGED <<aborted, allocs, nops>>

\* The closure of with_frame or alloc_try_with_layout panics: the stack
\* unwinds through the call and nothing is restored.
Unwind ==
    /\ ~aborted
    /\ ArenaOnly
    /\ stack # <<>>
    /\ stack' = Pop
    /\ last' = [NoLast EXCEPT !.op = "unwind",
                              !.path = Top.kind,
                              !.pre = CurrentState(current_chunk, headers),
                              !.saved = Top.state,
                              !.heap = headers,
                              !.nallocs = Len(allocs),
                              !.flag = Len(allocs) > Top.nallocs]
    /\ UNCHANGED <<aborted, current_chunk, headers, allocs, nops>>

\* RawArena::alloc_try_with_layout up to the call of the closure.  The
\* closures modelled allocate and reallocate but make no alloc_try call of
\* their own.
TryEnter ==
    /\ ~aborted
    /\ ArenaOnly
    /\ Len(stack) < MaxDepth
    /\ stack # <<>> => Top.kind = "frame"
    /\ nops < MaxOps
    /\ \E l \in Layouts, debug \in BOOLEAN :
         \E p \in AllocAnswers(current_chunk, headers, l[1], l[2]) :
            \E r \in {RawAllocWithLayout(current_chunk, headers, l[1], l[2],
                                          p, debug)} :
                /\ current_chunk' = r.current
                /\ headers' = r.headers
                /\ aborted' = (r.status = "assert")
                /\ allocs' = IF r.status = "ok"
                             THEN Append(allocs, [ptr |-> r.ptr, size |-> l[1],
                                                  align |-> l[2], live |-> TRUE])
                             ELSE allocs
                /\ stack' = IF r.status = "ok"
                            THEN Append(stack,
                                        Entry("try",
                                              CurrentState(current_chunk, headers),
                                              CurrentState(r.current, r.headers),
                                              Len(allocs), nops + 1))
                            ELSE stack
                /\ last' = Outcome("try_alloc", r, l[1], l[2])
    /\ nops' = nops + 1

\* Mutant of Rewinds: every failure rewinds.
RewindsOnEveryFailure(is_success, now, success_state) == ~is_success

\* !result.is_success() && self.current_state() == success_state
Rewinds(is_success, now, success_state) ==
    ~is_success /\ now = success_state

\* RawArena::alloc_try_with_layout after the closure returned its result.
TryReturn ==
    /\ ~aborted
    /\ ArenaOnly
    /\ stack # <<>>
    /\ Top.kind = "try"
    /\ \E is_success \in BOOLEAN :
         \E now \in {CurrentState(current_chunk, headers)} :
         \E rewinds \in {Rewinds(is_success, now, Top.success)} :
         \E r \in {IF rewinds
                   THEN RestoreState(current_chunk, headers, Top.state)
                   ELSE [current |-> current_chunk, headers |-> headers]} :
             /\ current_chunk' = r.current
             /\ headers' = r.headers
             /\ allocs' = IF rewinds THEN SubSeq(allocs, 1, Top.nallocs) ELSE allocs
             /\ stack' = Pop
             /\ last' = [NoLast EXCEPT !.op = "try_return",
                                       !.status = IF is_success THEN "ok" ELSE "err",
                                       !.pre = now,
                                       !.saved = Top.state,
                                       !.flag = nops > Top.ops]
    /\ UNCHANGED <<aborted, nops>>

Next ==
    \/ AllocWithLayout
    \/ Realloc
    \/ FrameEnter
    \/ FrameExit
    \/ Unwind
    \/ TryEnter
    \/ TryReturn
    \/ Reset
    \/ Drop

Spec == Init /\ [][Next]_vars


\* ------------------------------------------------- the bytes in the arena
\* The value read from a byte that was never written.
Uninit == 0

\* The address lies in a block obtained from the system allocator.
InBlock(h, a) == \E c \in Allocated(h) : c <= a /\ a < c + h[c].layout

Range(ptr, n) == {ptr + k : k \in 0..(n - 1)}

Read(m, a) == IF a \in DOMAIN m THEN m[a] ELSE Uninit

\* The n bytes at ptr.
ReadBytes(m, ptr, n) == [k \in 1..n |-> Read(m, ptr + k - 1)]

\* ptr::write / ptr::copy of the bytes to ptr.  A write outside every block
\* is undefined behaviour: lands tells whether the bytes written there are
\* read back later.
WriteBytes(m, h, ptr, bytes, lands) ==
    LET hit == {a \in Range(ptr, Len(bytes)) : lands \/ InBlock(h, a)}
    IN  [a \in DOMAIN m \cup hit |->
            IF a \in hit THEN bytes[a - ptr + 1] ELSE m[a]]

\* What a write of n bytes at ptr may do.
WriteOutcomes(h, ptr, n) ==
    IF \A a \in Range(ptr, n) : InBlock(h, a) THEN {TRUE} ELSE {TRUE, FALSE}

\* The copy made by ChunkHeader::fast_realloc when it moved the object; the
\* fallback of RawArena::realloc to a new allocation copies nothing.
ReallocCopy(m, r, pointer, new_size, lands) ==
    IF r.status = "ok" /\ r.path \in {"Shrink", "Grow"}
    THEN WriteBytes(m, r.headers, r.ptr, ReadBytes(m, pointer, new_size), lands)
    ELSE m

\* The value Bump::alloc(value) stores in a new object of n bytes.
Pattern(tag, n) == [k \in 1..n |-> 100 * tag + k]

\* The shrink in place the last operation made, if it made one:
\* (old pointer, old size, new pointer, new size).
ShrunkJustNow ==
    IF last.op = "realloc" /\ last.status = "ok" /\ last.path = "Shrink"
    THEN <<last.saved.chunk, last.saved.finger, last.ptr, last.size>>
    ELSE <<>>

\* Bump::alloc: alloc_with_layout, then the value is written.
BumpAlloc ==
    /\ ~aborted
    /\ ~dropped
    /\ nops < MaxOps
    /\ \E l \in Layouts, debug \in BOOLEAN :
         \E p \in AllocAnswers(current_chunk, headers, l[1], l[2]) :
            \E r \in {RawAllocWithLayout(current_chunk, headers, l[1], l[2],
                                          p, debug)} :
              \E lands \in IF r.status = "ok"
                           THEN WriteOutcomes(r.headers, r.ptr, l[1])
                           ELSE {TRUE} :
                /\ current_chunk' = r.current
                /\ headers' = r.headers
                /\ aborted' = (r.status = "assert")
                /\ allocs' = IF r.status = "ok"
                             THEN Append(allocs, [ptr |-> r.ptr, size |-> l[1],
                                                  align |-> l[2], live |-> TRUE])
                             ELSE allocs
                /\ mem' = IF r.status = "ok"
                          THEN WriteBytes(mem, r.headers, r.ptr,
                                          Pattern(nops + 1, l[1]), lands)
                          ELSE mem
                /\ last' = [Outcome("alloc", r, l[1], l[2])
                               EXCEPT !.heap = headers, !.prev = ShrunkJustNow]
    /\ nops' = nops + 1
    /\ UNCHANGED <<stack, dropped, vec, shared>>

\* Bump::realloc of a live object to a smaller, a larger or the same size.
BumpRealloc ==
    /\ ~aborted
    /\ ~dropped
    /\ nops < MaxOps
    /\ \E i \in 1..Len(allocs) :
         /\ allocs[i].live
         /\ \E n \in NewSizes \cup {allocs[i].size}, debug \in BOOLEAN :
              \E a \in {allocs[i]} :
                \E p \in ReallocAnswers(current_chunk, headers, a.ptr,
                                        a.size, a.align, n) :
                  \E r \in {RawRealloc(current_chunk, headers, a.ptr,
                                        a.size, a.align, n, p, debug)} :
                    \E lands \in IF r.status = "ok"
                                 THEN WriteOutcomes(r.headers, r.ptr, n)
                                 ELSE {TRUE} :
                      /\ current_chunk' = r.current
                      /\ headers' = r.headers
                      /\ aborted' = (r.status = "assert")
                      /\ allocs' =
                           IF r.status # "ok" THEN allocs
                           ELSE Append([allocs EXCEPT ![i].live = FALSE],
                                       [ptr |-> r.ptr, size |-> n,
                                        align |-> a.align, live |-> TRUE])
                      /\ mem' = ReallocCopy(mem, r, a.ptr, n, lands)
                      /\ last' = [Outcome("realloc", r, n, a.align)
                                     EXCEPT !.saved = [chunk |-> a.ptr,
                                                       finger |-> a.size],
                                            !.heap = headers,
                                            !.bytes = ReadBytes(mem, a.ptr,
                                                                Min(a.size, n))]
    /\ nops' = nops + 1
    /\ UNCHANGED <<stack, dropped, vec, shared>>

\* ------------------------------------------------------------------ Vec
Max(a, b) == IF a >= b THEN a ELSE b

\* Numbers of additional elements passed to reserve_exact.
Additional == {1, 2}

\* Deref for Vec: slice::from_raw_parts(pointer, length).
Deref(v, m) == [i \in 1..v.length |-> Read(m, v.pointer + (i - 1) * ELEMENT_SIZE)]

\* The values pushed into the slots [0, length), in order.
Slots(v) == SubSeq(v.pushed, 1, v.length)

\* Vec::try_reserve_exact returns at once: capacity - length >= additional,
\* computed in usize.
ReserveReturnsEarly(v, additional) ==
    WrapSub(v.capacity, v.length) >= additional \/ ELEMENT_SIZE = 0

\* The size asked from realloc by Vec::try_reserve_exact.
ReserveSize(v, additional) ==
    ELEMENT_SIZE * v.capacity + ELEMENT_SIZE * additional

\* Vec::try_reserve_exact, and the unwrap of Vec::reserve_exact.  A debug
\* build panics when capacity - length overflows.
TryReserveExact(cur, h, v, additional, p, debug) ==
    LET early(st) ==
            [status |-> st, called |-> FALSE, pointer |-> v.pointer,
             owned |-> v.owned, current |-> cur, headers |-> h,
             path |-> "none", size |-> 0, ptr |-> Null]
        Called(r, new_size) ==
            [status |-> r.status, called |-> TRUE,
             pointer |-> IF r.status = "ok" THEN r.ptr ELSE v.pointer,
             owned |-> IF r.status = "ok" THEN new_size ELSE v.owned,
             current |-> r.current, headers |-> r.headers,
             path |-> r.path, size |-> new_size, ptr |-> r.ptr]
    IN  IF debug /\ v.capacity < v.length THEN early("panic")
        ELSE IF ReserveReturnsEarly(v, additional) THEN early("ok")
        ELSE IF ReserveSize(v, additional) > USIZE_MAX THEN early("panic")
        ELSE Called(RawRealloc(cur, h, v.pointer, ELEMENT_SIZE * v.capacity,
                               ELEMENT_ALIGN, ReserveSize(v, additional),
                               p, debug),
                    ReserveSize(v, additional))

\* The answers the system allocator may give during try_reserve_exact.
ReserveAnswers(cur, h, v, additional) ==
    IF ReserveReturnsEarly(v, additional) THEN {Null}
    ELSE ReallocAnswers(cur, h, v.pointer, ELEMENT_SIZE * v.capacity,
                        ELEMENT_ALIGN, ReserveSize(v, additional))

\* Vec::new_in: the pointer is NonNull::dangling().
VecNewIn ==
    /\ ~aborted
    /\ ~dropped
    /\ vec.state = "none"
    /\ vec' = [NoVec EXCEPT !.state = "live", !.pointer = ELEMENT_ALIGN]
    /\ last' = [NoLast EXCEPT !.op = "new_in",
                              !.pre = CurrentState(current_chunk, headers),
                              !.heap = headers]
    /\ UNCHANGED <<aborted, current_chunk, headers, allocs, stack, nops,
                   dropped, mem, shared>>

\* Vec::reserve_exact
VecReserveExact ==
    /\ ~aborted
    /\ ~dropped
    /\ vec.state = "live"
    /\ nops < MaxOps
    /\ \E additional \in Additional, debug \in BOOLEAN :
         \E p \in ReserveAnswers(current_chunk, headers, vec, additional) :
           \E t \in {TryReserveExact(current_chunk, headers, vec, additional,
                                     p, debug)} :
             \E lands \in IF t.status = "ok" /\ t.called
                          THEN WriteOutcomes(t.headers, t.ptr, t.size)
                          ELSE {TRUE} :
               /\ current_chunk' = t.current
               /\ headers' = t.headers
               /\ aborted' = (t.status = "assert")
               /\ vec' = [vec EXCEPT !.pointer = t.pointer, !.owned = t.owned]
               /\ mem' = IF t.called
                         THEN ReallocCopy(mem, t, vec.pointer, t.size, lands)
                         ELSE mem
               /\ nops' = IF t.called THEN nops + 1 ELSE nops
               /\ last' = [NoLast EXCEPT !.op = "reserve_exact",
                                         !.status = t.status,
                                         !.size = additional,
                                         !.path = t.path,
                                         !.flag = t.called,
                                         !.pre = CurrentState(current_chunk,
                                                              headers),
                                         !.heap = headers,
                                         !.vec = vec]
    /\ UNCHANGED <<allocs, stack, dropped, shared>>

\* Vec::push of the next value: values are numbered in the order they are
\* pushed.  Every push counts in the budget of operations, whether it
\* reserves or not.
VecPush ==
    /\ ~aborted
    /\ ~dropped
    /\ vec.state = "live"
    /\ nops < MaxOps
    /\ \E debug \in BOOLEAN, grows \in {vec.length = vec.capacity} :
         \E p \in IF grows
                  THEN ReserveAnswers(current_chunk, headers, vec,
                                      Max(vec.length, 1))
                  ELSE {Null} :
           \E t \in {IF grows
                     THEN TryReserveExact(current_chunk, headers, vec,
                                          Max(vec.length, 1), p, debug)
                     ELSE [status |-> "ok", called |-> FALSE,
                           pointer |-> vec.pointer, owned |-> vec.owned,
                           current |-> current_chunk, headers |-> headers,
                           path |-> "none", size |-> 0, ptr |-> Null]} :
             \E lands \in IF t.status = "ok"
                          THEN WriteOutcomes(t.headers,
                                             t.pointer + vec.length * ELEMENT_SIZE,
                                             ELEMENT_SIZE)
                          ELSE {TRUE} :
               /\ current_chunk' = t.current
               /\ headers' = t.headers
               /\ aborted' = (t.status = "assert")
               /\ vec' = IF t.status # "ok" THEN vec
                         ELSE [vec EXCEPT !.pointer = t.pointer,
                                          !.owned = t.owned,
                                          !.length = vec.length + 1,
                                          !.npush = vec.npush + 1,
                                          !.pushed = Append(Slots(vec),
                                                            vec.npush + 1)]
               /\ mem' = IF t.status # "ok" THEN mem
                         ELSE WriteBytes(
                                ReallocCopy(mem, t, vec.pointer, t.size, TRUE),
                                t.headers,
                                t.pointer + vec.length * ELEMENT_SIZE,
                                [k \in 1..ELEMENT_SIZE |-> vec.npush + 1],
                                lands)
               /\ nops' = nops + 1
               /\ last' = [NoLast EXCEPT !.op = "push",
                                         !.status = t.status,
                                         !.ptr = t.pointer
                                                 + vec.length * ELEMENT_SIZE,
                                         !.size = ELEMENT_SIZE,
                                         !.path = t.path,
                                         !.flag = t.called,
                                         !.pre = CurrentState(current_chunk,
                                                              headers),
                                         !.heap = headers,
                                         !.vec = vec]
    /\ UNCHANGED <<allocs, stack, dropped, shared>>

\* The vector after Vec::pop: the length is decremented and ptr::read moves
\* the value out of the last slot.
Popped(v, m) ==
    IF v.length = 0 THEN v
    ELSE [v EXCEPT !.length = v.length - 1,
                   !.popped = v.popped \cup
                       {Read(m, v.pointer + (v.length - 1) * ELEMENT_SIZE)}]

\* Mutant of Cleared: drop_in_place runs twice on the slice.
ClearedDroppingTwice(v, m) ==
    [v EXCEPT !.length = 0, !.drops = v.drops \o Deref(v, m) \o Deref(v, m)]

\* The vector after Vec::clear: the length is set to 0 and drop_in_place
\* runs on the slice of the elements, as they are in memory.
Cleared(v, m) ==
    [v EXCEPT !.length = 0, !.drops = v.drops \o Deref(v, m)]

\* The ghost record of a call that only touches the vector.
VecOutcome(op) ==
    [NoLast EXCEPT !.op = op,
                   !.pre = CurrentState(current_chunk, headers),
                   !.heap = headers,
                   !.vec = vec]

\* The vector's own calls leave the arena alone.
VecOnly ==
    /\ ~aborted
    /\ ~dropped
    /\ vec.state = "live"
    /\ UNCHANGED <<aborted, current_chunk, headers, allocs, stack, nops,
                   dropped, mem, shared>>

\* Vec::pop
VecPop ==
    /\ VecOnly
    /\ vec' = Popped(vec, mem)
    /\ last' = [VecOutcome("pop")
                   EXCEPT !.flag = vec.length > 0,
                          !.bytes = IF vec.length = 0 THEN <<>>
                                    ELSE ReadBytes(mem,
                                           vec.pointer
                                           + (vec.length - 1) * ELEMENT_SIZE,
                                           ELEMENT_SIZE)]

\* Vec::clear
VecClear ==
    /\ VecOnly
    /\ vec' = Cleared(vec, mem)
    /\ last' = [VecOutcome("clear") EXCEPT !.bytes = Deref(vec, mem)]

\* Vec::leak: the slice is made from the pointer and the length, then the
\* vector, which leak took by value, goes out of scope and is dropped.
VecLeak ==
    /\ VecOnly
    /\ vec' = [Cleared(vec, mem) EXCEPT !.state = "leaked"]
    /\ last' = [VecOutcome("leak") EXCEPT !.ptr = vec.pointer,
                                          !.size = vec.length]

\* impl Drop for Vec
VecDrop ==
    /\ VecOnly
    /\ vec' = [Cleared(vec, mem) EXCEPT !.state = "dropped"]
    /\ last' = [VecOutcome("vec_drop") EXCEPT !.bytes = Deref(vec, mem)]

VecNext ==
    \/ BumpAlloc
    \/ BumpRealloc
    \/ VecNewIn
    \/ VecReserveExact
    \/ VecPush
    \/ VecPop
    \/ VecClear
    \/ VecLeak
    \/ VecDrop

VecSpec == Init /\ [][VecNext]_vars

\* ------------------------------------- wider capacities and layouts
\* Capacities handed to Arena::with_capacity (0 is Arena::new).
EdgeCaps == {0, 6, 12, 100}

\* Layouts of zero-sized values, and a layout whose alignment is above the
\* alignment of a chunk.
EdgeLayouts == Layouts \cup { <<0, 1>>, <<0, 32>>, <<48, 32>> }

\* Lengths declared by the ExactSizeIterator passed to alloc_slice_from_iter.
SliceLens == {0, 2}

\* Arena::new / Arena::with_capacity; the capacity asked for is remembered.
EdgeInit ==
    /\ aborted = FALSE
    /\ dropped = FALSE
    /\ vec = NoVec
    /\ mem = NoMem
    /\ shared = NoShared
    /\ \E capacity \in EdgeCaps, p \in Bases :
         \E arena \in {WithCapacity(capacity, p)} :
            /\ current_chunk = arena.current
            /\ headers = arena.headers
            /\ last = [NoLast EXCEPT !.cap = capacity]
    /\ allocs = <<>>
    /\ stack = <<>>
    /\ nops = 0

\* Bump::alloc_with_layout with any of the layouts.
EdgeAlloc == AllocIn(EdgeLayouts)

\* Mutant of SliceLength: the slice keeps the declared length.
SliceLengthDeclared(n, k) == n

\* The length of the slice alloc_slice_from_iter returns: the number of
\* items written (actual_length).
SliceLength(n, k) == k

\* Bump::alloc_slice_from_iter::<u8, _>: the iterator declares n items and
\* yields k.  The k-th item beyond the n slots makes expect() panic.
AllocSliceFromIter ==
    /\ ~aborted
    /\ ~dropped
    /\ nops < MaxOps
    /\ \E n \in SliceLens, debug \in BOOLEAN :
         \E k \in 0..(n + 1) :
           \E p \in AllocAnswers(current_chunk, headers, n * ELEMENT_SIZE,
                                  ELEMENT_ALIGN) :
             \E r \in {RawAllocWithLayout(current_chunk, headers,
                                           n * ELEMENT_SIZE, ELEMENT_ALIGN,
                                           p, debug)} :
               \E lands \in IF r.status = "ok"
                            THEN WriteOutcomes(r.headers, r.ptr, Min(n, k))
                            ELSE {TRUE} :
                 /\ current_chunk' = r.current
                 /\ headers' = r.headers
                 /\ aborted' = (r.status = "assert")
                 /\ allocs' = IF r.status = "ok"
                              THEN Append(allocs,
                                          [ptr |-> r.ptr, size |-> n * ELEMENT_SIZE,
                                           align |-> ELEMENT_ALIGN, live |-> TRUE])
                              ELSE allocs
                 /\ mem' = IF r.status = "ok"
                           THEN WriteBytes(mem, r.headers, r.ptr,
                                           Pattern(nops + 1, Min(n, k)), lands)
                           ELSE mem
                 /\ last' = [Outcome("slice_from_iter", r, n, ELEMENT_ALIGN)
                                EXCEPT !.status = IF r.status = "ok" /\ k > n
                                                  THEN "panic" ELSE r.status,
                                       !.bytes = Pattern(nops + 1, k),
                                       !.len = IF r.status = "ok" /\ k <= n
                                               THEN SliceLength(n, k) ELSE 0,
                                       !.heap = headers]
    /\ nops' = nops + 1
    /\ UNCHANGED <<stack, dropped, vec, shared>>

EdgeNext ==
    \/ EdgeAlloc
    \/ Realloc
    \/ Reset
    \/ AllocSliceFromIter

EdgeSpec == EdgeInit /\ [][EdgeNext]_vars

\* ---------------------------------------------------------- SharedArena
\* SharedArena::new(), before any thread asked for an allocator.
PoolInit ==
    /\ aborted = FALSE
    /\ dropped = FALSE
    /\ vec = NoVec
    /\ mem = NoMem
    /\ shared = NoShared
    /\ current_chunk = Null
    /\ headers = [c \in Bases |-> NoChunk]
    /\ allocs = <<>>
    /\ stack = <<>>
    /\ last = NoLast
    /\ nops = 0

\* The steps of the threads touch the SharedArena only.
PoolOnly ==
    UNCHANGED <<aborted, current_chunk, headers, allocs, stack, last, nops,
                dropped, vec, mem>>

\* The ThreadAllocators alive: those that hold an arena.
LiveAllocators == {t \in Threads : shared.threads[t].arena # NoArena}

\* Mutant of PoolAfterPop: the last arena is read and left in the pool.
PoolAfterPeek(pool) == pool

\* Vec::pop on the pool: the last arena is removed.
PoolAfterPop(pool) == SubSeq(pool, 1, Len(pool) - 1)

\* Mutant of PoolAfterPush: the arena is stored twice.
PoolAfterPushTwice(pool, arena) == Append(Append(pool, arena), arena)

\* Vec::push on the pool.
PoolAfterPush(pool, arena) == Append(pool, arena)

\* SharedArena::allocator: self.arenas.lock().unwrap().  The thread waits
\* for the mutex; a poisoned mutex makes unwrap panic.
AllocatorLock(t) ==
    /\ PoolOnly
    /\ shared.threads[t].pc = "idle"
    /\ shared.mutex = 0
    /\ shared.calls < MaxOps
    /\ shared' = IF shared.poisoned
                  THEN [shared EXCEPT !.threads[t].pc = "panicked",
                                      !.calls = @ + 1]
                  ELSE [shared EXCEPT !.threads[t].pc = "popping",
                                      !.mutex = t,
                                      !.calls = @ + 1]

\* SharedArena::allocator: pop().unwrap_or_default() under the lock; the
\* guard is released when the ThreadAllocator is built.
AllocatorPop(t) ==
    /\ PoolOnly
    /\ shared.threads[t].pc = "popping"
    /\ shared' =
         IF shared.pool # <<>>
         THEN [shared EXCEPT !.threads[t] =
                                 [pc |-> "live",
                                  arena |-> shared.pool[Len(shared.pool)]],
                             !.pool = PoolAfterPop(shared.pool),
                             !.mutex = 0]
         ELSE [shared EXCEPT !.threads[t] =
                                 [pc |-> "live", arena |-> shared.created + 1],
                             !.created = @ + 1,
                             !.mutex = 0]

\* Bump::alloc_with_layout for ThreadAllocator: the arena now has a chunk
\* and an object that is valid for the lifetime of the SharedArena.
ThreadAllocate(t) ==
    /\ PoolOnly
    /\ shared.threads[t].pc = "live"
    /\ shared.threads[t].arena \notin shared.used
    /\ shared' = [shared EXCEPT !.used = @ \cup {shared.threads[t].arena}]

\* impl Drop for ThreadAllocator: self.owner.arenas.lock().  With a
\* poisoned mutex the body of the if let is skipped.
DropLock(t) ==
    /\ PoolOnly
    /\ shared.threads[t].pc = "live"
    /\ shared.mutex = 0
    /\ shared' = IF shared.poisoned
                  THEN [shared EXCEPT !.threads[t].pc = "glue",
                                      !.leaked = @ \cup {shared.threads[t].arena}]
                  ELSE [shared EXCEPT !.threads[t].pc = "pushing",
                                      !.mutex = t]

\* impl Drop for ThreadAllocator: arenas.push(mem::take(&mut self.arena)),
\* then the guard is released.
DropPush(t) ==
    /\ PoolOnly
    /\ shared.threads[t].pc = "pushing"
    /\ shared' = [shared EXCEPT
                     !.pool = PoolAfterPush(@, shared.threads[t].arena),
                     !.threads[t] = [pc |-> "glue", arena |-> NoArena],
                     !.mutex = 0]

\* Vec::push panics because the pool cannot grow: the arena taken out of
\* the ThreadAllocator is dropped while the thread unwinds, and the guard,
\* dropped during the panic, poisons the mutex.
DropPushPanics(t) ==
    /\ PoolOnly
    /\ shared.threads[t].pc = "pushing"
    /\ shared' = [shared EXCEPT
                     !.freed = @ \cup {shared.threads[t].arena},
                     !.threads[t] = [pc |-> "panicked", arena |-> NoArena],
                     !.poisoned = TRUE,
                     !.mutex = 0]

\* After Drop::drop returned, the fields of the ThreadAllocator are
\* dropped: impl Drop for RawArena runs on the arena it still holds.
DropGlue(t) ==
    /\ PoolOnly
    /\ shared.threads[t].pc = "glue"
    /\ shared' = [shared EXCEPT
                     !.freed = IF shared.threads[t].arena # NoArena
                               THEN @ \cup {shared.threads[t].arena} ELSE @,
                     !.threads[t] = [pc |-> "idle", arena |-> NoArena]]

PoolNext ==
    \E t \in Threads :
        \/ AllocatorLock(t)
        \/ AllocatorPop(t)
        \/ ThreadAllocate(t)
        \/ DropLock(t)
        \/ DropPush(t)
        \/ DropPushPanics(t)
        \/ DropGlue(t)

PoolSpec == PoolInit /\ [][PoolNext]_vars

\* ---------------------------------------------------------------- claims
Live == {i \in 1..Len(allocs) : allocs[i].live}

Now == CurrentState(current_chunk, headers)

\* The bytes [ptr, ptr + size) lie inside the contents of one chunk.
InsideChunk(ptr, size) ==
    \E c \in Allocated(headers) : Start(c) <= ptr /\ ptr + size <= headers[c].end

\* C1: any two distinct live allocations occupy disjoint byte ranges.
C1_NonOverlap ==
    \A i, j \in Live :
        i < j => Disjoint(allocs[i].ptr, allocs[i].size,
                          allocs[j].ptr, allocs[j].size)

\* C2: every pointer returned by alloc_with_layout(L) is a multiple of
\* L.align, on the fast path and on the slow path alike.
C2_Aligned ==
    /\ last.op \in {"alloc", "try_alloc"}
    /\ last.status = "ok"
    => last.ptr % last.align = 0

\* C2 witness: an allocation aligned to 32 was served by the slow path in a
\* newly created chunk, and alignment padding was needed.
C2_Witness ==
    /\ last.op = "alloc"
    /\ last.status = "ok"
    /\ last.path = "alloc"
    /\ last.align = 32
    /\ last.ptr + last.size # headers[current_chunk].end

\* C3: alloc_with_layout fails only when the system allocator fails: if no
\* size computation overflows and the system allocator does not fail, the
\* call returns a non-null pointer to a region of the requested size inside
\* a chunk.
C3_FailsOnlyOnSystemFailure ==
    /\ last.op = "alloc"
    /\ ~last.overflow
    /\ ~last.sysfail
    => /\ last.status = "ok"
       /\ last.ptr # Null
       /\ InsideChunk(last.ptr, last.size)

\* C4: after with_frame returns normally, current_state() equals the state
\* immediately before the call, with or without an existing chunk.
C4_FrameRestores ==
    last.op = "frame_exit" => Now = last.saved

\* C5: when an allocation was made before the outermost frame, the arena has
\* a chunk, and every normal return of a frame entered in such a state, at
\* any nesting level, leaves the arena in the state the frame was entered in.
C5_NestedFramesRestore ==
    /\ Live # {} => current_chunk # Null
    /\ last.op = "frame_exit" /\ last.saved # NoState => Now = last.saved

\* C5 witness: the outermost frame returned; an allocation was made before
\* it, it allocated itself, and an inner frame that allocated returned
\* inside it.
C5_Witness ==
    /\ last.op = "frame_exit"
    /\ stack = <<>>
    /\ last.nallocs >= 1
    /\ last.flag
    /\ Now = last.saved

\* C6: if the closure of alloc_try_with_layout returns Err/None without
\* making a nested allocation, the state after the call equals the state
\* before the call, also on an arena with no chunk yet.
C6_FallibleRewind ==
    /\ last.op = "try_return"
    /\ last.status = "err"
    /\ ~last.flag
    => Now = last.saved

\* C7: if the closure of with_frame unwinds, nothing is restored: the
\* current chunk, every chunk header and every allocation stay as they were
\* when unwinding started.
C7_UnwindKeepsState ==
    /\ last.op = "unwind"
    /\ last.path = "frame"
    => /\ headers = last.heap
       /\ Now = last.pre
       /\ Len(allocs) = last.nallocs

\* C7 witness: a frame that allocated unwound, and the arena is not in the
\* state the frame was entered in.
C7_Witness ==
    /\ last.op = "unwind"
    /\ last.path = "frame"
    /\ last.flag
    /\ Now # last.saved
    /\ Live # {}

\* C8: after reset(), every chunk the arena owns has finger = end, and no
\* chunk has been freed.
C8_ResetClearsEveryChunk ==
    last.op = "reset" =>
        /\ \A c \in Allocated(headers) : headers[c].finger = headers[c].end
        /\ Allocated(headers) = Allocated(last.heap)

\* C9: after Arena::reset() the bump pointer is back at the first chunk of
\* the chain, so that the retained chunks serve the following allocations.
C9_ResetRewindsToFirstChunk ==
    last.op = "reset" /\ current_chunk # Null =>
        headers[current_chunk].previous = Null

\* C10: reset() followed by reset() leaves the arena as one reset() did
\* (current chunk, every finger, the chain links), and reset() never changes
\* the number of chunks.
C10_ResetIdempotent ==
    last.op = "reset" =>
        /\ Cardinality(Allocated(headers)) = Cardinality(Allocated(last.heap))
        /\ last.flag => headers = last.heap /\ Now = last.pre

\* C10 witness: a second reset() directly after a reset(), on an arena that
\* holds two or more chunks, one of them kept after the current chunk.
C10_Witness ==
    /\ last.op = "reset"
    /\ last.flag
    /\ current_chunk # Null
    /\ headers[current_chunk].next # Null

\* C11: when the arena is destroyed, every chunk it created is freed, the
\* chunks kept after the current chunk through next links included.
C11_DropFreesEveryChunk ==
    last.op = "drop" => Allocated(headers) = {}

\* C12: after the values v0..vn were pushed in order onto a Vec created by
\* new_in (nothing popped or cleared), the Vec has length n+1 and
\* dereferences to exactly [v0..vn].
C12_VecEqualsPushed ==
    /\ last.op = "push"
    /\ last.status = "ok"
    /\ vec.npush = Len(vec.pushed)
    => /\ vec.length = vec.npush
       /\ Deref(vec, mem) = vec.pushed

\* C13: a Vec satisfies length <= capacity, and capacity is the number of
\* element slots of the arena storage the vector owns.
C13_LengthWithinCapacity ==
    vec.state = "live" =>
        /\ vec.length <= vec.capacity
        /\ vec.capacity * ELEMENT_SIZE = vec.owned

\* C14: after reserve_exact(k) returns, capacity() - len() >= k, and a call
\* made when capacity - length >= k already holds changes nothing.
C14_ReserveExactReserves ==
    /\ last.op = "reserve_exact"
    /\ last.status = "ok"
    => /\ vec.capacity - vec.length >= last.size
       /\ last.vec.capacity - last.vec.length >= last.size
          => /\ vec = last.vec
             /\ headers = last.heap
             /\ Now = last.pre

\* C15: leak() runs the destructor of none of the elements: the returned
\* slice holds the elements [0, length) still initialized.
C15_LeakRunsNoDestructor ==
    last.op = "leak" => vec.drops = last.vec.drops

\* C16: clear() and dropping a Vec run the destructor of each element in
\* [0, length) exactly once, in order, and of nothing else; the length is 0
\* afterwards, the elements' bytes, the current chunk and every finger are
\* as before.
C16_ClearDropsEachOnce ==
    last.op \in {"clear", "vec_drop"} =>
        /\ vec.length = 0
        /\ Len(last.bytes) = last.vec.length
        /\ vec.drops = last.vec.drops \o last.bytes
        /\ Deref(last.vec, mem) = last.bytes
        /\ headers = last.heap
        /\ Now = last.pre

\* C16 witness: a vector that was cleared before is dropped with two
\* values in it.
C16_Witness ==
    /\ last.op = "vec_drop"
    /\ last.vec.length >= 2
    /\ Len(vec.drops) > last.vec.length

\* C17: after realloc(ptr, old_layout, new_size) the first
\* min(old_layout.size, new_size) bytes at the returned pointer equal the
\* bytes the object held at ptr before the call, whether the object shrank
\* in place, grew in place or was given a fresh allocation.
C17_ReallocKeepsBytes ==
    /\ last.op = "realloc"
    /\ last.status = "ok"
    => ReadBytes(mem, last.ptr, Len(last.bytes)) = last.bytes

\* The call took the fast path of realloc and the object is larger than
\* it was: it grew in the current chunk, without a fresh allocation.
GrewInPlace ==
    /\ last.path \in {"Shrink", "Grow"}
    /\ last.size > last.saved.finger

\* C18: realloc returns freed = None exactly when the allocation grew in
\* place in the current chunk, and freed = Some(ptr), the pointer passed in,
\* when it shrank or a fresh allocation was made.
C18_FreedIffNotGrownInPlace ==
    /\ last.op = "realloc"
    /\ last.status = "ok"
    => /\ last.freed = Null <=> GrewInPlace
       /\ last.freed # Null => last.freed = last.saved.chunk

\* C19: a realloc to the size the object already has allocates nothing:
\* every chunk header, the current chunk and its finger are as before and
\* the pointer returned is the pointer given, topmost or not.
C19_SameSizeReallocIsNoOp ==
    /\ last.op = "realloc"
    /\ last.status = "ok"
    /\ last.size = last.saved.finger
    => /\ headers = last.heap
       /\ Now = last.pre
       /\ last.ptr = last.saved.chunk

\* The bytes a shrink gave up: those of the object before the call that are
\* not bytes of the object after it.
FreedBytes(s) == Range(s[1], s[2]) \ Range(s[3], s[4])

\* An object of the layout can be placed inside the set of bytes.
FitsIn(size, align, F) ==
    \E a \in F : a % align = 0 /\ Range(a, size) \subseteq F

\* C20: the allocation that follows a shrink of the topmost allocation, if
\* its size and alignment fit in the bytes the shrink freed, is placed
\* inside them and overlaps no other live allocation.
C20_ShrinkFreedBytesReused ==
    /\ last.op = "alloc"
    /\ last.status = "ok"
    /\ last.prev # <<>>
    /\ FitsIn(last.size, last.align, FreedBytes(last.prev))
    => /\ Range(last.ptr, last.size) \subseteq FreedBytes(last.prev)
       /\ \A i \in Live \ {Len(allocs)} :
              Disjoint(last.ptr, last.size, allocs[i].ptr, allocs[i].size)

CreatedChunk ==
    /\ last.op = "alloc"
    /\ last.path = "alloc"
    /\ current_chunk # last.pre.chunk

\* C22: a chunk created because the current chunk overflowed has at least
\* twice the capacity of that chunk and at least the size requested; a
\* chunk created on an arena without a chunk has at least 1024 bytes.
C22_GrowthDoubles ==
    CreatedChunk =>
        /\ Capacity(headers, current_chunk) >= last.size
        /\ last.pre.chunk # Null =>
              Capacity(headers, current_chunk)
                  >= 2 * Capacity(headers, last.pre.chunk)
        /\ last.pre.chunk = Null =>
              Capacity(headers, current_chunk) >= DEFAULT_CAPACITY

\* C22 witness: the chunk that overflowed had 24 bytes, and the request of
\* 6 bytes is below the doubled capacity.
C22_Witness ==
    /\ CreatedChunk
    /\ last.pre.chunk # Null
    /\ Capacity(headers, last.pre.chunk) = 24
    /\ last.size = 6
    /\ last.status = "ok"

\* C23: when the layout requested is larger than the doubled capacity, the
\* chunk created is large enough for the request: the allocation retried
\* in it succeeds and returns a region of the requested size inside it,
\* whatever the size and the alignment.
C23_EnlargedChunkFits ==
    /\ CreatedChunk
    /\ last.pre.chunk # Null
    /\ last.size > 2 * Capacity(headers, last.pre.chunk)
    => /\ last.status = "ok"
       /\ Start(current_chunk) <= last.ptr
       /\ last.ptr + last.size <= headers[current_chunk].end

RECURSIVE TotalSize(_)
\* The bytes asked for by the allocations of the list.
TotalSize(as) ==
    IF as = <<>> THEN 0 ELSE as[1].size + TotalSize(Tail(as))

\* Since the arena was made, only allocations aligned to 1 were asked for;
\* the last call asked for one more, and they total at most the capacity
\* the arena was made with.
OnlyByteAlignedWithinCapacity ==
    /\ last.op = "alloc"
    /\ last.align = 1
    /\ last.cap > 0
    /\ \A i \in 1..Len(allocs) : allocs[i].live /\ allocs[i].align = 1
    /\ IF last.status = "ok"
       THEN nops = Len(allocs) /\ TotalSize(allocs) <= last.cap
       ELSE nops = Len(allocs) + 1 /\ TotalSize(allocs) + last.size <= last.cap

\* C24: Arena::new() creates no chunk; Arena::with_capacity(n), n > 0,
\* creates exactly one chunk, empty and of capacity at least n, and
\* allocations aligned to 1 that total at most n bytes are all served by
\* that chunk, without another chunk being created.
C24_WithCapacityOneChunk ==
    /\ last.op = "new" /\ last.cap = 0 =>
          current_chunk = Null /\ Allocated(headers) = {}
    /\ last.op = "new" /\ last.cap > 0 =>
          /\ Allocated(headers) = {current_chunk}
          /\ Capacity(headers, current_chunk) >= last.cap
          /\ headers[current_chunk].finger = headers[current_chunk].end
    /\ OnlyByteAlignedWithinCapacity =>
          /\ last.status = "ok"
          /\ last.path = "fast"
          /\ Allocated(headers) = {current_chunk}

\* C24 witness: two allocations of 6 bytes fill the 12 bytes an arena was
\* made with.
C24_Witness ==
    /\ OnlyByteAlignedWithinCapacity
    /\ last.cap = 12
    /\ Len(allocs) = 2
    /\ TotalSize(allocs) = 12

\* C25: alloc_slice_from_iter with an iterator that declares n items: when
\* it yields more than n the call panics; when it yields k <= n the slice
\* returned starts at the allocation, has length k and, the allocation
\* lying inside a chunk, holds the k items in order; the arena consumed n
\* slots: served by the current chunk, the finger is n slots below where
\* it was and the slice starts at the finger, the unused slots after it.
C25_SliceFromIter ==
    last.op = "slice_from_iter" =>
        /\ Len(last.bytes) > last.size => last.status # "ok"
        /\ last.status = "ok" =>
              /\ last.len = Len(last.bytes)
              /\ InsideChunk(last.ptr, last.size * ELEMENT_SIZE) =>
                    ReadBytes(mem, last.ptr, last.len * ELEMENT_SIZE)
                        = last.bytes
              /\ last.ptr = Now.finger
              /\ last.path = "fast" =>
                    /\ Now.chunk = last.pre.chunk
                    /\ Now.finger = last.pre.finger - last.size * ELEMENT_SIZE

\* C25 witness: the iterator declared 2 items and yielded 1; the slice of
\* one item was allocated in the current chunk.
C25_Witness ==
    /\ last.op = "slice_from_iter"
    /\ last.status = "ok"
    /\ last.size = 2
    /\ last.len = 1
    /\ last.path = "fast"
    /\ ReadBytes(mem, last.ptr, 1) = last.bytes

\* The threads whose ThreadAllocator holds the arena.
Holders(a) == {t \in Threads : shared.threads[t].arena = a}

\* The places of the pool that hold the arena.
InPool(a) == {i \in 1..Len(shared.pool) : shared.pool[i] = a}

\* C26: under every interleaving of allocator() calls and ThreadAllocator
\* drops, each RawArena that exists is in exactly one place: once in the
\* pool or owned by exactly one ThreadAllocator, never both and never owned
\* twice; an arena that was destroyed is in neither.
C26_ArenaInOnePlace ==
    \A a \in 1..shared.created :
        Cardinality(Holders(a)) + Cardinality(InPool(a))
            = IF a \in shared.freed THEN 0 ELSE 1

\* C26 witness: both threads hold a ThreadAllocator; the second thread got
\* the arena the first thread had returned to the pool.
C26_Witness ==
    /\ shared.threads[1] = [pc |-> "live", arena |-> 2]
    /\ shared.threads[2] = [pc |-> "live", arena |-> 1]

\* C27 as the specification states it: the number of arenas in the pool
\* plus the number of live ThreadAllocators is constant, that is, what it
\* is for a new SharedArena: 0.
C27_PoolPlusLiveConstant ==
    Len(shared.pool) + Cardinality(LiveAllocators) = 0

\* C27, amended: the number of arenas in the pool plus the number of live
\* ThreadAllocators is the number of arenas created so far minus the
\* number of arenas destroyed.
C27_PoolPlusLiveIsCreated ==
    Len(shared.pool) + Cardinality(LiveAllocators)
        = shared.created - Cardinality(shared.freed)

\* C27 witness: an arena lies in the pool while a thread holds another.
C27_Witness ==
    /\ Len(shared.pool) = 1
    /\ Cardinality(LiveAllocators) = 1
    /\ shared.created = 2
    /\ shared.freed = {}

\* C28: the arena of a ThreadAllocator dropped while the mutex is poisoned
\* is leaked: it is not in the pool and its chunks are not freed.
C28_PoisonedDropLeaks ==
    \A a \in shared.leaked :
        /\ InPool(a) = {}
        /\ a \notin shared.freed

\* C29: in every reachable state, every chunk of the arena satisfies
\* start <= finger <= end.
C29_FingerWithinChunk ==
    \A c \in Allocated(headers) :
        /\ Start(c) <= headers[c].finger
        /\ headers[c].finger <= headers[c].end

\* C30: once the snapshots S1..Sn taken by nested frames were restored in
\* the order Sn, ..., S1, the arena is in the state it had before S1 was
\* taken, also when S1 was taken on an arena with no chunk.
C30_RestoreLifo ==
    /\ last.op = "frame_exit"
    /\ stack = <<>>
    => Now = last.saved

\* ------------------------------------------------------- large requests
\* Layouts that include a request larger than every address of the arena:
\* finger - size wraps around.
WrapLayouts == Layouts \cup { <<20000, 1>> }

WrapAlloc == AllocIn(WrapLayouts)

WrapNext ==
    \/ WrapAlloc
    \/ Realloc
    \/ Reset

WrapSpec == Init /\ [][WrapNext]_vars

\* The step is an allocation request of the given layout made while the
\* current chunk has a next chunk and cannot serve the request itself.
SlowWithNext(size, align) ==
    /\ ~aborted
    /\ current_chunk # Null
    /\ headers[current_chunk].next # Null
    /\ last'.op \in {"alloc", "try_alloc"}
    /\ last'.size = size
    /\ last'.align = align
    /\ ChunkFastAlloc(headers, current_chunk, size, align, FALSE).status = "oom"

\* The chunk, once empty, has room for the request.
Holds(h, c, size, align) ==
    /\ size <= Capacity(h, c)
    /\ FastAllocFinger(h[c].end, size, align) >= Start(c)

\* C31: when the fast path fails and the current chunk has a linked next
\* chunk that can hold the request, the slow path makes that chunk the
\* current chunk with its finger put back to end (the object is then bumped
\* from end), the chunk keeps its capacity and its links, and the system
\* allocator is not called.
C31_AdoptsNextThatFits ==
    [][ \A l \in Layouts :
          LET next == headers[current_chunk].next
          IN  SlowWithNext(l[1], l[2]) /\ Holds(headers, next, l[1], l[2])
              => /\ last'.status = "ok"
                 /\ last'.path = "adopt"
                 /\ current_chunk' = next
                 /\ last'.ptr = FastAllocFinger(headers[next].end, l[1], l[2])
                 /\ headers'[next] = [headers[next] EXCEPT !.finger = last'.ptr]
                 /\ Allocated(headers') = Allocated(headers) ]_vars

\* C32: when the next chunk kept after the current one has a capacity
\* smaller than the request, the slow path grows that chunk's block to hold
\* the request, the grown chunk stays linked between the same chunks, and
\* the allocation succeeds in it.
C32_GrowsNextTooSmall ==
    [][ \A l \in Layouts :
          LET next == headers[current_chunk].next
          IN  SlowWithNext(l[1], l[2]) /\ Capacity(headers, next) < l[1]
              => \/ last'.sysfail
                 \/ /\ last'.status = "ok"
                    /\ last'.path = "realloc"
                    /\ Capacity(headers', current_chunk') >= l[1]
                    /\ headers'[current_chunk'].previous = current_chunk
                    /\ headers'[current_chunk].next = current_chunk'
                    /\ headers'[current_chunk'].next = headers[next].next
                    /\ InsideChunk(last'.ptr, l[1]) ]_vars

\* C33: the size in bytes of every block requested from the system
\* allocator (header plus contents) is the unrounded size rounded up to a
\* multiple of 16: the first chunk of an arena made with a capacity has
\* HEADER_SIZE + capacity bytes rounded up, and every block's size is a
\* multiple of 16.
C33_ChunkSizeRoundedUp ==
    /\ \A c \in Allocated(headers) :
          headers[c].layout = PadToAlign(headers[c].layout, CHUNK_ALIGNMENT)
    /\ last.op = "new" /\ last.cap # 0 /\ current_chunk # Null
       => headers[current_chunk].layout =
             PadToAlign(HEADER_SIZE + last.cap, CHUNK_ALIGNMENT)

RECURSIVE After(_, _)
After(c, h) ==
    IF c = Null \/ h[c].next = Null THEN {}
    ELSE {h[c].next} \cup After(h[c].next, h)

\* The step calls restore_state with the snapshot on top of the stack.
Restores ==
    /\ stack # <<>>
    /\ \/ last'.op = "frame_exit"
       \/ /\ last'.op = "try_return"
          /\ last'.status = "err"
          /\ CurrentState(current_chunk, headers) = Top.success

\* C35: restore_state(s) with a snapshot that is not empty changes only the
\* arena's current chunk and the finger of s.chunk: the finger, end and
\* links of every other chunk are unchanged.  The header of a chunk kept
\* after the current one changes only when the slow path of an allocation
\* request takes that chunk over as the current chunk, which puts its
\* finger back to end.
C35_RestoreTouchesOneFinger ==
    [][ /\ Restores /\ Top.state # NoState
           => /\ current_chunk' = Top.state.chunk
              /\ headers' = [headers EXCEPT
                                ![Top.state.chunk].finger = Top.state.finger]
        /\ \A c \in After(current_chunk, headers) :
              headers'[c] # headers[c]
              => /\ last'.op \in {"alloc", "try_alloc", "realloc"}
                 /\ last'.path \in {"adopt", "realloc"}
                 /\ c = headers[current_chunk].next
                 /\ last'.path = "adopt"
                    => /\ current_chunk' = c
                       /\ headers'[c].end = headers[c].end
                       /\ headers'[c].finger =
                             IF last'.status = "ok" THEN last'.ptr
                             ELSE headers[c].end ]_vars

\* A snapshot that is not empty was just restored, and a chunk kept after
\* the current one still has the finger it had: it is not at its end.
C35_Witness ==
    /\ last.op \in {"frame_exit", "try_return"}
    /\ last.saved # NoState
    /\ Now = last.saved
    /\ \E c \in After(current_chunk, headers) :
          headers[c].finger # headers[c].end

\* C36: the element written by Vec::push lands in the storage most recently
\* obtained for the vector: the slot at pointer + length lies within that
\* storage, inside the contents of a chunk, and in no other live allocation.
C36_PushWritesInStorage ==
    last.op = "push" /\ last.status = "ok"
    => /\ vec.pointer <= last.ptr
       /\ last.ptr + ELEMENT_SIZE <= vec.pointer + vec.owned
       /\ InsideChunk(last.ptr, ELEMENT_SIZE)
       /\ \A i \in Live :
             Disjoint(last.ptr, ELEMENT_SIZE, allocs[i].ptr, allocs[i].size)

\* The addresses ptr::copy(pointer, finger, new_size) reads and writes in
\* fast_realloc.
CopyReads(pointer, new_size) == Range(pointer, new_size)

CopyWrites(finger, new_size) == Range(finger, new_size)

\* C37: a realloc in place (a shrink or a grow of the topmost allocation)
\* reads only bytes of the old allocation [ptr, ptr + old_size), writes only
\* bytes of the new allocation, and reads and writes no address outside
\* [start, end) of the chunk.
C37_CopyStaysInAllocation ==
    last.op = "realloc" /\ last.status = "ok" /\ last.path \in {"Shrink", "Grow"}
    => LET old_ptr == last.saved.chunk
           old_size == last.saved.finger
           InChunk(a) == Start(current_chunk) <= a /\ a < headers[current_chunk].end
       IN  /\ CopyReads(old_ptr, last.size) \subseteq Range(old_ptr, old_size)
           /\ CopyWrites(last.ptr, last.size) \subseteq Range(last.ptr, last.size)
           /\ \A a \in CopyReads(old_ptr, last.size) \cup
                       CopyWrites(last.ptr, last.size) : InChunk(a)

\* C38: for a request whose size is larger than the address of the current
\* finger, so that finger - size wraps around, the fast path reports that
\* the chunk is out of room and the slow path runs: the fast path returns
\* no pointer and leaves the finger of the chunk where it was.
C38_WrappingRequestGoesSlow ==
    /\ last.op = "alloc"
    /\ last.pre # NoState
    /\ last.size > last.pre.finger
    => /\ last.path # "fast"
       /\ headers[last.pre.chunk].finger = last.pre.finger

C40_SlowPathAssertionsHold ==
    [][ \A l \in Layouts :
          /\ ~aborted
          /\ last'.op \in {"alloc", "try_alloc"}
          /\ last'.size = l[1]
          /\ last'.align = l[2]
          /\ \/ current_chunk = Null
             \/ ChunkFastAlloc(headers, current_chunk, l[1], l[2],
                               FALSE).status = "oom"
          => \A p \in AllocAnswers(current_chunk, headers, l[1], l[2]) :
                GetNextOrAllocateChunk(current_chunk, headers, 0, l[1], p,
                                       TRUE).status # "assert" ]_vars

====
